---- MODULE Spec2Model ----
(***************************************************************************)
(* Model of rasterstats/utils.py: the pixel-window arithmetic              *)
(* (bbox_to_pixel_offsets, pixel_offsets_to_window,                        *)
(* raster_extent_as_bounds), the geometry type mapping                     *)
(* (shapely_to_ogr_type) and the vector-input dispatcher (get_features,    *)
(* parse_geo, geo_records, ogr_records).                                   *)
(*                                                                         *)
(* Coordinates, origins and pixel sizes are integers; the quotient         *)
(* (a - origin) / pixel is the exact rational, so floor and ceil are the   *)
(* floor and ceiling of that rational.                                     *)
(***************************************************************************)
EXTENDS Integers, Sequences, FiniteSets, TLC

\* ------------------------------------------------------------------ bounds
MaxCoord == 2      \* bounding-box coordinates range over -MaxCoord..MaxCoord
MaxSize == 2       \* raster width and height range over 1..MaxSize
MaxLen == 3        \* longest iterable / feature list given to get_features
MaxId == 2         \* distinct payloads of one kind of geometry-like thing
MaxFeat == 2       \* most features in a file-backed layer

\* pixel widths and heights: either sign, never 0
PixelSizes == {-2, -1, 1, 2}
\* raster origins <<originX, originY>>
Origins == {<<0, 0>>, <<1, 2>>}

VARIABLES
    pc,            \* where the caller is: "start", then the state a call left
    gt,            \* affine transform <<ox, pw, 0, oy, 0, ph>> of the last call
    bbox,          \* bounding box <<minX, minY, maxX, maxY>> of the last call
    rsize,         \* raster size <<W, H>> of the last call
    offsets,       \* result of bbox_to_pixel_offsets, <<>> before it
    window,        \* result of pixel_offsets_to_window, <<>> before it
    shapely_type,  \* argument of shapely_to_ogr_type
    ogr_type,      \* its result
    vectors,       \* argument of get_features
    layer,         \* the layer a path names: [exists, count]
    features_iter, \* the sequence get_features returned: [kind, src, pos, started]
    strategy,      \* the strategy get_features returned
    spatial_ref,   \* the spatial reference get_features returned
    records,       \* records the caller has received so far
    held,          \* datasets held open by the suspended ogr_records frame
    err            \* the exception the last call ended in, "none" otherwise

vars == <<pc, gt, bbox, rsize, offsets, window, shapely_type, ogr_type, vectors,
          layer, features_iter, strategy, spatial_ref, records, held, err>>

windowVars == <<gt, bbox, rsize, offsets, window>>
typeVars == <<shapely_type, ogr_type>>
featureVars == <<vectors, layer, features_iter, strategy, spatial_ref, records, held>>

\* --------------------------------------------------------- pixel windows

\* math.floor(a / b) and math.ceil(a / b) for b # 0
Floor(a, b) == IF b > 0 THEN a \div b ELSE (0 - a) \div (0 - b)

Ceil(a, b) == 0 - Floor(0 - a, b)

ClipLowNoop(v) == v

\* lines 29-30 and 33-34: if x1 < 0: x1 = 0
ClipLow(v) == IF v < 0 THEN 0 ELSE v

ClipHighNoop(v, size) == v

\* lines 31-32 and 35-36: if x2 > rsize[0]: x2 = rsize[0]
ClipHigh(v, size) == IF v > size THEN size ELSE v

bbox_to_pixel_offsets(g, b, rs) ==
    LET originX == g[1]
        originY == g[4]
        pixel_width == g[2]
        pixel_height == g[6]
        x1 == ClipLow(Floor(b[1] - originX, pixel_width))
        x2 == ClipHigh(Ceil(b[3] - originX, pixel_width), rs[1])
        y1 == ClipLow(Floor(b[4] - originY, pixel_height))
        y2 == ClipHigh(Ceil(b[2] - originY, pixel_height), rs[2])
        xsize == x2 - x1
        ysize == y2 - y1
    IN  <<x1, y1, xsize, ysize>>

pixel_offsets_to_window_swapped(o) ==
    [err |-> "none", val |-> <<<<o[1], o[1] + o[3]>>, <<o[2], o[2] + o[4]>>>>]

\* [err, val]: RasterStatsError unless the argument has four elements
pixel_offsets_to_window(o) ==
    IF Len(o) # 4
    THEN [err |-> "RasterStatsError", val |-> <<>>]
    ELSE [err |-> "none", val |-> <<<<o[2], o[2] + o[4]>>, <<o[1], o[1] + o[3]>>>>]

raster_extent_as_bounds_swapped(g, shape) ==
    <<g[1], g[4] + (g[6] * shape[1]), g[1] + (g[2] * shape[2]), g[4]>>

raster_extent_as_bounds(g, shape) ==
    LET x1 == g[1]
        x2 == g[1] + (g[2] * shape[1])
        y1 == g[4] + (g[6] * shape[2])
        y2 == g[4]
    IN  <<x1, y1, x2, y2>>

Transforms == {<<o[1], pw, 0, o[2], 0, ph>> : o \in Origins, pw \in PixelSizes,
                                              ph \in PixelSizes}

Coords == (0 - MaxCoord)..MaxCoord

Boxes == {<<a, b, c, d>> : a \in Coords, b \in Coords, c \in Coords, d \in Coords}

Sizes == {<<w, h>> : w \in 1..MaxSize, h \in 1..MaxSize}

\* offsets a caller may hand to pixel_offsets_to_window that are no 4-tuple
BadOffsets == {<<0, 0, 1>>, <<0, 0, 1, 1, 1>>}

\* ------------------------------------------------------ geometry types

\* the names shapely_to_ogr_type is called with in the model
TypeNames == {"Point", "LineString", "Polygon", "MultiPoint", "MultiLineString",
              "MultiPolygon", "Feature", "FeatureCollection", "GeometryCollection",
              "Unsupported"}

shapely_to_ogr_type_same_polygon(t) ==
    IF t \in {"Polygon", "MultiPolygon"}
    THEN [err |-> "none", val |-> "wkbPolygon"]
    ELSE IF t \in {"LineString", "MultiLineString"}
    THEN [err |-> "none", val |-> "wkbLineString"]
    ELSE [err |-> "TypeError", val |-> "none"]

\* [err, val]: the ogr constant returned, or the TypeError of line 112
shapely_to_ogr_type(t) ==
    IF t = "Polygon" THEN [err |-> "none", val |-> "wkbPolygon"]
    ELSE IF t = "LineString" THEN [err |-> "none", val |-> "wkbLineString"]
    ELSE IF t = "MultiPolygon" THEN [err |-> "none", val |-> "wkbMultiPolygon"]
    ELSE IF t = "MultiLineString" THEN [err |-> "none", val |-> "wkbLineString"]
    ELSE [err |-> "TypeError", val |-> "none"]

\* ------------------------------------------------- geometry-like things

\* A python value handed to get_features or parse_geo:
\*   cls    "str", "bytes", "geoobj" (has __geo_interface__), "dict", "list"
\*   enc    what a str or bytes holds: "path", "wkt", "json", "wkb", "junk"
\*   type   the 'type' of the mapping the value is or decodes to; "missing"
\*          when that mapping has no 'type' key; "none" when there is none
\*   id     the payload (coordinates, properties) of the geometry
\*   items  the members of a list, or the 'features' of a feature collection
Thing(c, e, t, i, its) == [cls |-> c, enc |-> e, type |-> t, id |-> i, items |-> its]

NoThing == Thing("none", "none", "none", 0, <<>>)

\* the geojson-like mapping with this type and payload
Mapping(t, i, its) == Thing("dict", "map", t, i, its)

\* line 143
valid_types == {"Feature", "Point", "LineString", "Polygon",
                "MultiPoint", "MultiLineString", "MultiPolygon"}

\* str.lower() on the type names of the model
Lower(t) ==
    CASE t = "FeatureCollection" -> "featurecollection"
      [] t = "Polygon" -> "polygon"
      [] t = "Feature" -> "feature"
      [] t = "Bogus" -> "bogus"
      [] OTHER -> t

parse_geo_as_feature(thing) ==
    [err |-> "none", geo |-> Mapping("Feature", thing.id, <<>>)]

\* [err, geo]: the first interpretation of lines 121-157 that succeeds, else
\* the RasterStatsError of line 159.  thing['type'] of a mapping without the
\* key raises KeyError, which lines 148 and 156 do not catch.
parse_geo(thing) ==
    IF thing.cls = "geoobj"
    THEN [err |-> "none", geo |-> Mapping(thing.type, thing.id, thing.items)]
    ELSE IF thing.cls = "bytes" /\ thing.enc = "wkb"
    THEN [err |-> "none", geo |-> Mapping(thing.type, thing.id, <<>>)]
    ELSE IF thing.cls = "str" /\ thing.enc = "wkt"
    THEN [err |-> "none", geo |-> Mapping(thing.type, thing.id, <<>>)]
    ELSE IF thing.cls = "dict" /\ thing.type = "missing"
    THEN [err |-> "KeyError", geo |-> NoThing]
    ELSE IF thing.cls = "dict" /\ thing.type \in valid_types
    THEN [err |-> "none", geo |-> thing]
    ELSE IF thing.cls = "str" /\ thing.enc = "json" /\ thing.type = "missing"
    THEN [err |-> "KeyError", geo |-> NoThing]
    ELSE IF thing.cls = "str" /\ thing.enc = "json"
            /\ thing.type \in valid_types \cup {"FeatureCollection"}
    THEN [err |-> "none", geo |-> Mapping(thing.type, thing.id, thing.items)]
    ELSE [err |-> "RasterStatsError", geo |-> NoThing]

\* things that may be members of a list or of a feature collection
Items == {Thing("dict", "map", t, i, <<>>) : t \in {"Polygon", "missing"}, i \in 1..MaxId}
         \cup {Thing("geoobj", "obj", "Feature", i, <<>>) : i \in 1..MaxId}
         \cup {Thing("str", "junk", "none", i, <<>>) : i \in 1..MaxId}

ItemSeqs == UNION {[1..n -> Items] : n \in 0..MaxLen}

\* single values
Singles == {Thing("dict", "map", t, i, <<>>) :
                t \in {"Polygon", "Feature", "FeatureCollection", "missing"}, i \in 1..MaxId}
           \cup {Thing("geoobj", "obj", t, i, <<>>) : t \in {"Polygon", "Feature"}, i \in 1..MaxId}
           \cup {Thing("str", "wkt", "Polygon", i, <<>>) : i \in 1..MaxId}
           \cup {Thing("str", "json", t, i, <<>>) :
                t \in {"Polygon", "FeatureCollection", "Bogus", "missing"}, i \in 1..MaxId}
           \cup {Thing("str", "junk", "none", i, <<>>) : i \in 1..MaxId}
           \cup {Thing("bytes", e, "Polygon", i, <<>>) : e \in {"wkb", "junk"}, i \in 1..MaxId}

Paths == {Thing("str", "path", "none", 1, <<>>)}

Collections == {Thing("geoobj", "obj", t, 1, its) :
                    t \in {"FeatureCollection", "featurecollection"}, its \in ItemSeqs}

Lists == {Thing("list", "list", "none", 1, its) : its \in ItemSeqs}

Vectors == Singles \cup Paths \cup Collections \cup Lists

\* what a path names: layer_num may name no layer; a layer has 0..MaxFeat features
Layers == [exists : BOOLEAN, count : 0..MaxFeat]

NoLayer == [exists |-> FALSE, count |-> 0]

\* ------------------------------------------------------- file-backed layers

\* "none", or the OGRError of lines 165 and 169: ogr opens paths only
get_ogr_ds(vds) ==
    IF vds.cls # "str" THEN "OGRError"
    ELSE IF vds.enc # "path" THEN "OGRError"
    ELSE "none"

\* [err, val]: ds.GetLayer gives None for a layer_num naming no layer, and
\* None.GetSpatialRef() is an AttributeError
ogr_srs(vector, l) ==
    IF get_ogr_ds(vector) # "none" THEN [err |-> "OGRError", val |-> "none"]
    ELSE IF ~l.exists THEN [err |-> "AttributeError", val |-> "none"]
    ELSE [err |-> "none", val |-> "layer_srs"]

\* the record of the feature with this FID; id 0 is a record without 'id'
\* (line 93: if fid)
feature_to_geojson(fid) == Mapping("Feature", fid, <<>>)

\* ------------------------------------------------------------ sequences

\* The sequence get_features returns:
\*   kind     "list" (a python list), "geo_records" or "ogr_records" (a
\*            generator), "none" before the call
\*   src      the list, or the iterable geo_records runs over
\*   pos      index of the next element (list, geo_records) or the number of
\*            features fetched (ogr_records)
\*   started  whether a generator has run to its first yield
\*   done     whether a generator has returned or raised
Iter(k, src, pos, started, done) ==
    [kind |-> k, src |-> src, pos |-> pos, started |-> started, done |-> done]

NoIter == Iter("none", <<>>, 1, FALSE, FALSE)

\* One next() on the sequence: [status, val, err, it, held] with status
\* "yield", "stop" (StopIteration) or "raise"; held is the number of datasets
\* the generator frame keeps open afterwards.
Step(st, val, e, it, h) == [status |-> st, val |-> val, err |-> e, it |-> it, held |-> h]

Finished(it) == [it EXCEPT !.done = TRUE]

list_next(it) ==
    IF it.pos <= Len(it.src)
    THEN Step("yield", it.src[it.pos], "none", [it EXCEPT !.pos = @ + 1], 0)
    ELSE Step("stop", NoThing, "none", it, 0)

geo_records_next_skip_errors(it) ==
    LET ok == {i \in it.pos..Len(it.src) : parse_geo(it.src[i]).err = "none"}
        k == CHOOSE i \in ok : \A j \in ok : i <= j
    IN  IF it.done \/ ok = {}
        THEN Step("stop", NoThing, "none", Finished(it), 0)
        ELSE Step("yield", parse_geo(it.src[k]).geo, "none",
                  [it EXCEPT !.pos = k + 1, !.started = TRUE], 0)

geo_records_next_drop_last(it) ==
    IF it.done \/ it.pos >= Len(it.src)
    THEN Step("stop", NoThing, "none", Finished(it), 0)
    ELSE LET r == parse_geo(it.src[it.pos])
         IN  IF r.err # "none"
             THEN Step("raise", NoThing, r.err, Finished(it), 0)
             ELSE Step("yield", r.geo, "none",
                       [it EXCEPT !.pos = @ + 1, !.started = TRUE], 0)

\* lines 191-193: for vector in vectors: yield parse_geo(vector)
geo_records_next(it) ==
    IF it.done \/ it.pos > Len(it.src)
    THEN Step("stop", NoThing, "none", Finished(it), 0)
    ELSE LET r == parse_geo(it.src[it.pos])
         IN  IF r.err # "none"
             THEN Step("raise", NoThing, r.err, Finished(it), 0)
             ELSE Step("yield", r.geo, "none",
                       [it EXCEPT !.pos = @ + 1, !.started = TRUE], 0)

ogr_records_next_no_count_check(it, vector, l) ==
    IF it.done \/ it.pos >= l.count
    THEN Step("stop", NoThing, "none", Finished(it), 0)
    ELSE Step("yield", feature_to_geojson(it.pos), "none",
              [it EXCEPT !.pos = @ + 1, !.started = TRUE], 1)

\* lines 180-188.  The body runs from the first next(): it opens the dataset,
\* which the frame's local ds keeps open while the generator is suspended at
\* the yield; the frame ends, and drops ds, when the generator returns or raises.
ogr_records_next(it, vector, l) ==
    IF it.done
    THEN Step("stop", NoThing, "none", it, 0)
    ELSE IF ~it.started /\ get_ogr_ds(vector) # "none"
    THEN Step("raise", NoThing, "OGRError", Finished(it), 0)
    ELSE IF ~it.started /\ ~l.exists
    THEN Step("raise", NoThing, "AttributeError", Finished(it), 0)
    ELSE IF ~it.started /\ l.count = 0
    THEN Step("raise", NoThing, "OGRError", Finished(it), 0)
    ELSE IF it.pos >= l.count
    THEN Step("stop", NoThing, "none", Finished(it), 0)
    ELSE Step("yield", feature_to_geojson(it.pos), "none",
              [it EXCEPT !.pos = @ + 1, !.started = TRUE], 1)

iter_next(it, vector, l) ==
    IF it.kind = "list" THEN list_next(it)
    ELSE IF it.kind = "geo_records" THEN geo_records_next(it)
    ELSE ogr_records_next(it, vector, l)

\* ---------------------------------------------------------- get_features

Triple(e, it, st, srs) ==
    [err |-> e, features_iter |-> it, strategy |-> st, spatial_ref |-> srs]

\* feat = parse_geo(vectors); features_iter = [feat]; strategy = "single_geo"
single_geo(v) ==
    LET r == parse_geo(v)
    IN  IF r.err # "none"
        THEN Triple(r.err, NoIter, "none", "none")
        ELSE Triple("none", Iter("list", <<r.geo>>, 1, FALSE, FALSE), "single_geo", "empty")

\* lines 196-237: [err, features_iter, strategy, spatial_ref].  Calling the
\* generator functions ogr_records and geo_records runs none of their body.
\* The dataset line 202 opens and the one ogr_srs opens are not kept.
get_features(v, l) ==
    IF v.cls = "str"
    THEN IF get_ogr_ds(v) = "none" /\ ogr_srs(v, l).err = "none"
         THEN Triple("none", Iter("ogr_records", <<>>, 0, FALSE, FALSE), "ogr",
                     ogr_srs(v, l).val)
         ELSE single_geo(v)
    ELSE IF v.cls = "bytes"
    THEN single_geo(v)
    ELSE IF v.cls = "geoobj"
    THEN IF Lower(v.type) = "featurecollection"
         THEN Triple("none", Iter("geo_records", v.items, 1, FALSE, FALSE),
                     "geo_featurecollection", "empty")
         ELSE single_geo(v)
    ELSE IF v.cls = "dict"
    THEN single_geo(v)
    ELSE Triple("none", Iter("geo_records", v.items, 1, FALSE, FALSE), "iter_geo", "empty")

\* -------------------------------------------------------------- actions

Init ==
    /\ pc = "start"
    /\ gt = <<>>
    /\ bbox = <<>>
    /\ rsize = <<>>
    /\ offsets = <<>>
    /\ window = <<>>
    /\ shapely_type = "none"
    /\ ogr_type = "none"
    /\ vectors = NoThing
    /\ layer = NoLayer
    /\ features_iter = NoIter
    /\ strategy = "none"
    /\ spatial_ref = "none"
    /\ records = <<>>
    /\ held = 0
    /\ err = "none"

\* bounds = raster_extent_as_bounds(gt, shape)
Call_raster_extent_as_bounds ==
    /\ pc = "start"
    /\ \E g \in Transforms, shape \in Sizes :
          /\ gt' = g
          /\ rsize' = shape
          /\ bbox' = raster_extent_as_bounds(g, shape)
    /\ pc' = "bounds"
    /\ UNCHANGED <<offsets, window, err>>
    /\ UNCHANGED typeVars
    /\ UNCHANGED featureVars

\* offsets = bbox_to_pixel_offsets(gt, bbox, rsize), on a bounding box of the
\* caller's or on the bounds raster_extent_as_bounds returned
Call_bbox_to_pixel_offsets ==
    /\ pc \in {"start", "bounds"}
    /\ \E g \in (IF pc = "start" THEN Transforms ELSE {gt}),
          b \in (IF pc = "start" THEN Boxes ELSE {bbox}),
          rs \in (IF pc = "start" THEN Sizes ELSE {rsize}) :
          /\ gt' = g
          /\ bbox' = b
          /\ rsize' = rs
          /\ offsets' = bbox_to_pixel_offsets(g, b, rs)
    /\ pc' = IF pc = "start" THEN "offsets" ELSE "extent_offsets"
    /\ UNCHANGED <<window, err>>
    /\ UNCHANGED typeVars
    /\ UNCHANGED featureVars

\* window = pixel_offsets_to_window(offsets), on the offsets just computed or
\* on a tuple that has not four elements
Call_pixel_offsets_to_window ==
    /\ pc \in {"start", "offsets", "extent_offsets"}
    /\ \E o \in (IF pc = "start" THEN BadOffsets ELSE {offsets}) :
          LET r == pixel_offsets_to_window(o)
          IN  /\ offsets' = o
              /\ window' = r.val
              /\ err' = r.err
              /\ pc' = IF r.err = "none" THEN "window" ELSE "raised"
    /\ UNCHANGED <<gt, bbox, rsize>>
    /\ UNCHANGED typeVars
    /\ UNCHANGED featureVars

\* ogr_type = shapely_to_ogr_type(shapely_type)
Call_shapely_to_ogr_type ==
    /\ pc = "start"
    /\ \E t \in TypeNames :
          LET r == shapely_to_ogr_type(t)
          IN  /\ shapely_type' = t
              /\ ogr_type' = r.val
              /\ err' = r.err
    /\ pc' = "type"
    /\ UNCHANGED windowVars
    /\ UNCHANGED featureVars

\* features_iter, strategy, spatial_ref = get_features(vectors, layer_num)
Call_get_features ==
    /\ pc = "start"
    /\ \E v \in Vectors, l \in Layers :
          /\ (v \notin Paths => l = NoLayer)
          /\ LET r == get_features(v, l)
             IN  /\ vectors' = v
                 /\ layer' = l
                 /\ features_iter' = r.features_iter
                 /\ strategy' = r.strategy
                 /\ spatial_ref' = r.spatial_ref
                 /\ err' = r.err
                 /\ pc' = IF r.err = "none" THEN "returned" ELSE "raised"
    /\ UNCHANGED <<records, held>>
    /\ UNCHANGED windowVars
    /\ UNCHANGED typeVars

\* next(features_iter): the caller receives a record, or StopIteration, or
\* the exception the generator raises.  A generator that has raised is
\* finished: a further next() is StopIteration.
Next_record ==
    /\ pc \in {"returned", "failed"}
    /\ LET s == iter_next(features_iter, vectors, layer)
       IN  /\ features_iter' = s.it
           /\ held' = s.held
           /\ records' = IF s.status = "yield" THEN Append(records, s.val) ELSE records
           /\ err' = IF s.status = "raise" THEN s.err ELSE err
           /\ pc' = IF s.status = "yield" THEN "returned"
                    ELSE IF s.status = "raise" THEN "failed"
                    ELSE "exhausted"
    /\ UNCHANGED <<vectors, layer, strategy, spatial_ref>>
    /\ UNCHANGED windowVars
    /\ UNCHANGED typeVars

\* The caller stops pulling before the sequence ends.  Nothing in the module
\* closes the sequence or the dataset: a suspended generator the caller still
\* refers to keeps its frame, and the dataset in it, alive; one the caller
\* drops is finalised by the interpreter, which ends the frame.
Stop_pulling ==
    /\ pc = "returned"
    /\ \E keep \in BOOLEAN :
          IF keep
          THEN UNCHANGED <<features_iter, held>>
          ELSE /\ features_iter' = Finished(features_iter)
               /\ held' = 0
    /\ pc' = "abandoned"
    /\ UNCHANGED <<vectors, layer, strategy, spatial_ref, records, err>>
    /\ UNCHANGED windowVars
    /\ UNCHANGED typeVars

Next ==
    \/ Call_raster_extent_as_bounds
    \/ Call_bbox_to_pixel_offsets
    \/ Call_pixel_offsets_to_window
    \/ Call_shapely_to_ogr_type
    \/ Call_get_features
    \/ Next_record
    \/ Stop_pulling

Spec == Init /\ [][Next]_vars

\* --------------------------------------------------------------- claims

OffsetsComputed == pc \in {"offsets", "extent_offsets"}

\* C1: with positive pixel width and negative pixel height, for every bounding
\* box and raster size, the window bbox_to_pixel_offsets returns lies within
\* the raster and its width and height are not negative.
C1_WindowInsideRaster ==
    (OffsetsComputed /\ gt[2] > 0 /\ gt[6] < 0) =>
        /\ offsets[1] >= 0
        /\ offsets[2] >= 0
        /\ offsets[3] >= 0
        /\ offsets[4] >= 0
        /\ offsets[1] + offsets[3] <= rsize[1]
        /\ offsets[2] + offsets[4] <= rsize[2]

\* C10: for every transform with non-zero pixel size, every bounding box and
\* raster size, the offsets are not negative and the far corner of the window
\* does not exceed the raster, whatever the sign of the width and height.
C10_CornersClipped ==
    OffsetsComputed =>
        /\ offsets[1] >= 0
        /\ offsets[2] >= 0
        /\ offsets[1] + offsets[3] <= rsize[1]
        /\ offsets[2] + offsets[4] <= rsize[2]

\* a box right of and below the raster was clipped to a window of negative size
C10_Witness ==
    /\ pc = "offsets"
    /\ offsets[3] < 0
    /\ offsets[4] < 0
    /\ offsets[1] + offsets[3] = rsize[1]

\* C6: the window of the bounds raster_extent_as_bounds returns for a
\* transform and raster size (W, H) is (0, 0, W, H).
C6_ExtentGivesFullWindow ==
    pc = "extent_offsets" => offsets = <<0, 0, rsize[1], rsize[2]>>

C6_Witness ==
    /\ pc = "extent_offsets"
    /\ rsize[1] # rsize[2]
    /\ gt[1] # 0
    /\ gt[2] = 2
    /\ gt[6] = 0 - 2
    /\ offsets = <<0, 0, rsize[1], rsize[2]>>

\* C7: for the window (x, y, w, h) bbox_to_pixel_offsets returned,
\* pixel_offsets_to_window returns ((rowStart, rowEnd), (colStart, colEnd))
\* with rowStart = y, colStart = x, rowEnd - rowStart = h, colEnd - colStart = w.
C7_WindowRestatesOffsets ==
    pc = "window" =>
        /\ window[1][1] = offsets[2]
        /\ window[2][1] = offsets[1]
        /\ window[1][2] - window[1][1] = offsets[4]
        /\ window[2][2] - window[2][1] = offsets[3]

C7_Witness ==
    /\ pc = "window"
    /\ offsets[1] # offsets[2]
    /\ offsets[3] # offsets[4]
    /\ offsets[3] > 0
    /\ window = <<<<offsets[2], offsets[2] + offsets[4]>>,
                  <<offsets[1], offsets[1] + offsets[3]>>>>

\* C5, as claimed: shapely_to_ogr_type returns a code for each of the seven
\* canonical names, distinct for Polygon and MultiPolygon, and fails with
\* TypeError for every other name.
C5_SevenNamesMapped ==
    pc = "type" =>
        /\ (shapely_type \in valid_types <=> err = "none")
        /\ (shapely_type \notin valid_types => err = "TypeError")
        /\ (shapely_type = "Polygon" => ogr_type # shapely_to_ogr_type("MultiPolygon").val)

\* C5, amended: shapely_to_ogr_type returns a code for Polygon, LineString,
\* MultiPolygon and MultiLineString only, distinct for Polygon and
\* MultiPolygon, and fails with TypeError for every other name, Point,
\* MultiPoint and Feature among them.
C5_FourNamesMapped ==
    pc = "type" =>
        /\ (shapely_type = "Polygon" => err = "none" /\ ogr_type = "wkbPolygon")
        /\ (shapely_type = "MultiPolygon" => err = "none" /\ ogr_type = "wkbMultiPolygon")
        /\ (shapely_type \in {"LineString", "MultiLineString"} =>
                err = "none" /\ ogr_type = "wkbLineString")
        /\ (shapely_type \notin {"Polygon", "MultiPolygon", "LineString", "MultiLineString"} =>
                err = "TypeError" /\ ogr_type = "none")

C5_Witness ==
    /\ pc = "type"
    /\ shapely_type = "Point"
    /\ err = "TypeError"

AfterGetFeatures == pc \in {"returned", "raised", "failed", "exhausted", "abandoned"}

\* get_features was called on a path that opens and whose layer has no feature
EmptyLayerPath ==
    /\ AfterGetFeatures
    /\ vectors \in Paths
    /\ layer.exists
    /\ layer.count = 0

\* C2, as claimed: get_features on a path that opens but whose layer reports
\* 0 features ends in OGRError instead of returning a triple.
C2_CallFailsOnEmptyLayer ==
    EmptyLayerPath => pc = "raised" /\ err = "OGRError"

\* C2, amended: get_features on such a path returns the triple with strategy
\* "ogr" and the layer's spatial reference; the sequence yields no record, and
\* the first pull from it fails with OGRError.
C2_FirstPullFailsOnEmptyLayer ==
    EmptyLayerPath =>
        /\ pc # "raised"
        /\ strategy = "ogr"
        /\ spatial_ref = "layer_srs"
        /\ records = <<>>
        /\ (pc = "returned" => err = "none" /\ ~features_iter.started)
        /\ (pc \in {"failed", "exhausted"} => err = "OGRError")

C2_Witness ==
    /\ EmptyLayerPath
    /\ pc = "failed"
    /\ err = "OGRError"
    /\ records = <<>>

AllParse(items) == \A i \in 1..Len(items) : parse_geo(items[i]).err = "none"

\* index of the first item that does not parse
FirstBad(items) ==
    CHOOSE k \in 1..Len(items) :
        /\ parse_geo(items[k]).err # "none"
        /\ \A i \in 1..(k - 1) : parse_geo(items[i]).err = "none"

\* what the caller has received is the parse of the first items, in order
RecordsArePrefix ==
    /\ Len(records) <= Len(vectors.items)
    /\ \A i \in 1..Len(records) : records[i] = parse_geo(vectors.items[i]).geo

\* C3: get_features on a geo-interface object whose type is a feature
\* collection with n features (each one parses) returns strategy
\* geo_featurecollection and a sequence of exactly n records, the i-th the
\* parse of the i-th member, each once and in input order.
C3_CollectionYieldsMembersInOrder ==
    (/\ AfterGetFeatures
     /\ vectors.cls = "geoobj"
     /\ Lower(vectors.type) = "featurecollection"
     /\ AllParse(vectors.items)) =>
        /\ pc \in {"returned", "exhausted", "abandoned"}
        /\ strategy = "geo_featurecollection"
        /\ RecordsArePrefix
        /\ (pc = "exhausted" => Len(records) = Len(vectors.items))

C3_Witness ==
    /\ pc = "exhausted"
    /\ strategy = "geo_featurecollection"
    /\ Len(vectors.items) = 3
    /\ Len(records) = 3
    /\ vectors.items[1] # vectors.items[2]
    /\ vectors.items[3].cls = "geoobj"
    /\ records[3] = Mapping("Feature", vectors.items[3].id, <<>>)

\* C4: get_features on a plain Polygon mapping returns strategy single_geo
\* and a sequence of exactly one record, which is the mapping unchanged.
C4_PolygonMappingEchoed ==
    (AfterGetFeatures /\ vectors.cls = "dict" /\ vectors.type = "Polygon") =>
        /\ pc \in {"returned", "exhausted", "abandoned"}
        /\ strategy = "single_geo"
        /\ Len(records) <= 1
        /\ (records # <<>> => records[1] = vectors)
        /\ (pc = "exhausted" => Len(records) = 1)

C4_Witness ==
    /\ pc = "exhausted"
    /\ vectors.cls = "dict"
    /\ vectors.type = "Polygon"
    /\ strategy = "single_geo"
    /\ records = <<vectors>>

\* get_features took a list with an item that does not parse
ListWithBadItem ==
    /\ AfterGetFeatures
    /\ strategy = "iter_geo"
    /\ ~AllParse(vectors.items)

C9_DatasetReleased ==
    (strategy = "ogr" /\ pc \in {"exhausted", "failed", "abandoned"}) => held = 0

====
